---- MODULE Spec2Model ----
(***************************************************************************)
(* Model of UsersService (src/src/users/users.service.ts): the Mongo       *)
(* collections of users and block edges, the Redis cache of user           *)
(* snapshots, and the requests in flight.  Every `await` of a handler is   *)
(* a suspension point, so every handler is a sequence of atomic steps, one *)
(* per store or cache call, together with the synchronous code around it.  *)
(***************************************************************************)
EXTENDS Integers, Sequences, FiniteSets, TLC

MaxUsers == 3            \* accounts ever created (ObjectIds handed out)
MaxFocus == 2            \* accounts whose tokens the checked scenarios use
MaxProcs == 2            \* requests in flight at the same time

TTL == 3600              \* 'EX', 3600: seconds a cache entry lives
TickSeconds == TTL \div 2   \* granularity of the passage of time

Ids == 1 .. MaxUsers     \* ObjectIds of the accounts, in creation order
NeverId == 0             \* a well-formed ObjectId that belongs to no document
Procs == 1 .. MaxProcs

Undefined == -1          \* an optional number that was not given

Null == [null |-> TRUE]

(***************************************************************************)
(* Values.  A user document holds an ObjectId and a Date; its JSON form    *)
(* holds their string renderings (toHexString, toISOString).  An id string *)
(* is a hex spelling of an ObjectId: the same ObjectId has a lower-case    *)
(* spelling (the one toHexString and the token carry) and an upper-case    *)
(* one, which the ObjectId cast accepts as well.  The fields name and      *)
(* surname are payload no handler reads and are left out.                  *)
(***************************************************************************)
ObjectId(i) == [oid |-> i]
HexString(i) == [hex |-> i, uc |-> FALSE]
IdStrings(S) == [hex : S, uc : BOOLEAN]

\* new Types.ObjectId(str) / mongoose's cast of an id string in a filter
CastObjectId(s) == ObjectId(s.hex)

\* the request bodies of POST /users: distinct usernames, a few birthdates
SeedUsername(i) ==
  << <<"a", "B", "b", "z">>[((i - 1) % 4) + 1],
     <<"n", "o", "e", "y">>[(((i - 1) \div 4) % 4) + 1] >>
SeedBirthdate(i) ==
  << <<2000, 1, 1>>, <<1980, 6, 15>>, <<1990, 11, 2>> >>[((i - 1) % 3) + 1]
SeedDto(i) == [username |-> SeedUsername(i), birthdate |-> SeedBirthdate(i)]
CreateDtos == {SeedDto(i) : i \in Ids}

\* the request bodies of PUT /users: a partial update
UpdateDtos ==
  { [username |-> SeedUsername(2)],
    [username |-> <<"c", "y">>],
    [birthdate |-> <<1980, 6, 15>>] }

\* new this.userModel(dto) with the _id the driver generates
NewDoc(i, dto) ==
  [_id |-> ObjectId(i), username |-> dto.username,
   birthdate |-> [date |-> dto.birthdate]]

\* the document after $set of the dto's fields (findByIdAndUpdate, new: true)
Merge(doc, dto) ==
  [f \in DOMAIN doc |->
     IF f \in DOMAIN dto
       THEN (IF f = "birthdate" THEN [date |-> dto[f]] ELSE dto[f])
       ELSE doc[f]]

\* JSON.stringify(doc): ObjectId -> hex string, Date -> ISO string
ToJSON(doc) ==
  [_id |-> HexString(doc._id.oid), username |-> doc.username,
   birthdate |-> [iso |-> doc.birthdate.date]]
Stringify(doc) == [json |-> ToJSON(doc)]
\* JSON.parse(text): a plain object, strings stay strings
Parse(text) == text.json

\* what the HTTP layer sends for a returned user: JSON of a document or of
\* an object parsed from the cache
Body(v) == IF "oid" \in DOMAIN v._id THEN ToJSON(v) ELSE v

\* process.env.JWT_SECRET || 'secret_key', and a secret that is not that one
Secret == "env"
OtherSecret == "other"

\* mutant: updateUser takes its secret from somewhere else (this.jwtSecret)
SecretIn_Config(op) == IF op = "updateUser" THEN OtherSecret ELSE Secret

\* `const secret = ...` of each operation: every one evaluates the same
\* expression
SecretIn(op) == Secret

\* a string is a text [s |-> ...] or, when it is a JWT, its payload and the
\* secret its signature was made with
Text(t) == [s |-> t]

\* jwt.sign({id: _id}, secret): the payload holds the ObjectId as JSON
Sign(i, secret) == [id |-> HexString(i), sig |-> secret]

\* mutant: the payload is decoded and the signature is not checked
Verify_Decode(token, secret) == "sig" \in DOMAIN token

\* jwt.verify(token, secret) does not throw
Verify(token, secret) == "sig" \in DOMAIN token /\ token.sig = secret

\* the token createUser returned for user i
TokenOf(i) == Sign(i, SecretIn("createUser"))

\* the Authorization header as split(' ') sees it: a sequence of strings
Bearer(token) == [parts |-> <<Text("Bearer"), token>>]

\* authHeader?.split(' ')[1] || null
ExtractTokenFromHeader(authHeader) ==
  IF authHeader = Null THEN Null
  ELSE IF Len(authHeader.parts) < 2 THEN Null
  ELSE IF authHeader.parts[2] = Text("") THEN Null
  ELSE authHeader.parts[2]

VARIABLES
  users,     \* users collection: ObjectId number -> document or Null
  nextId,    \* number of the next ObjectId to hand out
  blocks,    \* blocks collection: <<blocker, blockee>> -> number of documents
  cache,     \* Redis: subject -> Null or [val, ttl], with history by, stale
  req,       \* the requests, one slot per process
  pre,       \* history: the store and the cache when the current request was
             \* called; Off when requests interleave
  last       \* history: the updateUser that succeeded just before, if one did

store == <<users, nextId, blocks, cache>>
vars == <<users, nextId, blocks, cache, req, pre, last>>

Pairs == Ids \X Ids

NoLast == [sub |-> NeverId, old |-> FALSE]

Off == [off |-> TRUE]
Serial == pre # Off

Idle == [op |-> "none", pc |-> "idle", hdr |-> Null, tok |-> Null,
         sub |-> NeverId, arg |-> Null, loc |-> Null, res |-> Null,
         err |-> "none"]

\* after construction: empty collections, an empty cache, no request
Empty(h) ==
  /\ pre = h
  /\ users = [i \in Ids |-> Null]
  /\ nextId = 1
  /\ blocks = [e \in Pairs |-> 0]
  /\ cache = [i \in Ids |-> Null]
  /\ req = [p \in Procs |-> Idle]
  /\ last = NoLast

Init == Empty(Off)

\* after MaxUsers calls of createUser have returned: the accounts exist
Populated(h) ==
  /\ pre = h
  /\ users = [i \in Ids |-> NewDoc(i, SeedDto(i))]
  /\ nextId = MaxUsers + 1
  /\ blocks = [e \in Pairs |-> 0]
  /\ cache = [i \in Ids |-> Null]
  /\ req = [p \in Procs |-> Idle]
  /\ last = NoLast

Exists(i) == i \in Ids /\ users[i] # Null
FindById(i) == IF i \in Ids THEN users[i] ELSE Null

\* subjects for which createUser has returned a token (never revoked)
Issued == 1 .. (nextId - 1)

Done(p, r) ==
  /\ req' = [req EXCEPT ![p] = [@ EXCEPT !.pc = "done", !.res = r]]
  /\ UNCHANGED <<pre, last>>
Fail(p, e) ==
  /\ req' = [req EXCEPT ![p] = [@ EXCEPT !.pc = "done", !.err = e]]
  /\ UNCHANGED <<pre, last>>
Goto(p, label, l) ==
  /\ req' = [req EXCEPT ![p] = [@ EXCEPT !.pc = label, !.loc = l]]
  /\ UNCHANGED <<pre, last>>

\* a store write to subject s makes every snapshot of s taken before it old:
\* the cache entry and the snapshots held by requests in flight (history only)
Outdated(c, s) ==
  [c EXCEPT ![s] = IF @ = Null THEN Null ELSE [@ EXCEPT !.stale = TRUE]]
OutdatedReq(r, s, p) ==
  [q \in Procs |->
     IF q # p /\ r[q].sub = s /\ r[q].pc \in {"get_set", "upd_cache"}
       THEN [r[q] EXCEPT !.loc = [@ EXCEPT !.stale = TRUE]]
       ELSE r[q]]

----------------------------------------------------------------------------
(* A request arrives.  The controller takes the token from the Authorization
   header and the operation verifies it before its first await.  When requests
   are served one at a time, slot 1 serves them and the history variables
   record the state the request was called in. *)

Snapshot == [users |-> users, blocks |-> blocks, cache |-> cache]

LastOf(r) ==
  IF r.op = "updateUser" /\ r.err = "none"
    THEN [sub |-> r.sub,
          old |-> /\ pre.cache[r.sub] # Null
                  /\ pre.cache[r.sub].val # Stringify(r.res.user)]
    ELSE NoLast

Arrive(p, r) ==
  /\ req[p].pc = "idle"
  /\ Serial => p = 1
  /\ req' = [req EXCEPT ![p] = r]
  /\ pre' = IF Serial THEN Snapshot ELSE pre
  /\ UNCHANGED <<store, last>>

\* the answer is sent and the slot is free again
Respond(p) ==
  /\ req[p].pc = "done"
  /\ req' = [req EXCEPT ![p] = Idle]
  /\ pre' = IF Serial THEN Null ELSE pre
  /\ last' = IF Serial THEN LastOf(req[p]) ELSE last
  /\ UNCHANGED store

\* the operation is entered with `token`: jwt.verify throws, or
\* userId = decodedToken.id and the operation runs to its first await.
\* tok records the token the operation was invoked with.
Invoke(p, op, h, token, a, label) ==
  IF Verify(token, SecretIn(op))
    THEN Arrive(p, [op |-> op, pc |-> label, hdr |-> h, tok |-> token,
                    sub |-> CastObjectId(token.id).oid, arg |-> a,
                    loc |-> Null, res |-> Null, err |-> "none"])
    ELSE Arrive(p, [op |-> op, pc |-> "done", hdr |-> h, tok |-> token,
                    sub |-> NeverId, arg |-> a,
                    loc |-> Null, res |-> Null, err |-> "invalid token"])

\* a controller method of an authenticated route: extractTokenFromHeader,
\* BadRequestException if there is no token, else the service operation
Request(p, op, h, a, label) ==
  LET token == ExtractTokenFromHeader(h) IN
    IF token = Null
      THEN Arrive(p, [op |-> op, pc |-> "done", hdr |-> h, tok |-> Null,
                      sub |-> NeverId, arg |-> a,
                      loc |-> Null, res |-> Null, err |-> "400 Bad Request"])
      ELSE Invoke(p, op, h, token, a, label)

\* a request of the client that holds the token createUser returned for s
Call(p, op, s, a, label) ==
  /\ s \in Issued
  /\ Request(p, op, Bearer(TokenOf(s)), a, label)

----------------------------------------------------------------------------
(* createUser *)

CallCreateWith(p, D) ==
  \E dto \in D :
    /\ nextId <= MaxUsers
    /\ Arrive(p, [op |-> "createUser", pc |-> "crt_save", hdr |-> Null,
                  tok |-> Null, sub |-> NeverId,
                  arg |-> dto, loc |-> Null, res |-> Null, err |-> "none"])

CallCreateUser(p) == CallCreateWith(p, CreateDtos)

UsernameTaken(name, except) ==
  \E i \in Ids : i # except /\ users[i] # Null /\ users[i].username = name

\* await newUser.save(); jwt.sign; return
CreateUserSave(p) ==
  /\ req[p].pc = "crt_save"
  /\ IF UsernameTaken(req[p].arg.username, NeverId)
       THEN /\ Fail(p, "E11000 duplicate key")
            /\ UNCHANGED store
       ELSE /\ nextId <= MaxUsers
            /\ users' = [users EXCEPT ![nextId] = NewDoc(nextId, req[p].arg)]
            /\ nextId' = nextId + 1
            /\ Done(p, [kind |-> "created", user |-> NewDoc(nextId, req[p].arg),
                        token |-> Sign(nextId, SecretIn("createUser"))])
            /\ UNCHANGED <<blocks, cache>>

----------------------------------------------------------------------------
(* getUser *)

CallGetUser(p, S) == \E s \in S : Call(p, "getUser", s, Null, "get_cache")

\* mutant: the cached snapshot is ignored and the store is read every time
GetUserCache_Bypass(p) ==
  /\ req[p].pc = "get_cache"
  /\ Goto(p, "get_find", Null)
  /\ UNCHANGED store

\* await this.redis.get; if (cachedUser) return JSON.parse(cachedUser)
GetUserCache(p) ==
  /\ req[p].pc = "get_cache"
  /\ LET cachedUser == cache[req[p].sub] IN
       IF cachedUser # Null
         THEN Done(p, [kind |-> "user", user |-> Parse(cachedUser.val), reads |-> 0])
         ELSE Goto(p, "get_find", Null)
  /\ UNCHANGED store

\* await this.userModel.findById(userId); if (!user) return user
GetUserFind(p) ==
  /\ req[p].pc = "get_find"
  /\ LET user == FindById(req[p].sub) IN
       IF user # Null
         THEN Goto(p, "get_set", [user |-> user, stale |-> FALSE])
         ELSE Done(p, [kind |-> "null", reads |-> 1])
  /\ UNCHANGED store

\* await this.redis.set(key, JSON.stringify(user), 'EX', 3600); return user
GetUserSet(p) ==
  /\ req[p].pc = "get_set"
  /\ cache' = [cache EXCEPT ![req[p].sub] =
                 [val |-> Stringify(req[p].loc.user), ttl |-> TTL,
                  by |-> "getUser", stale |-> req[p].loc.stale]]
  /\ Done(p, [kind |-> "user", user |-> req[p].loc.user, reads |-> 1])
  /\ UNCHANGED <<users, nextId, blocks>>

----------------------------------------------------------------------------
(* updateUser *)

CallUpdateUser(p, S) ==
  \E s \in S, dto \in UpdateDtos : Call(p, "updateUser", s, dto, "upd_store")

\* mutant: {new: true} left out, the document as it was is resolved
Returned_Before(before, after) == before

\* what findByIdAndUpdate resolves to under {new: true}: the document as updated
Returned(before, after) == after

\* mutant: when no document is found the cache entry of the subject is removed
UpdateUserStore_Evict(p) ==
  /\ req[p].pc = "upd_store"
  /\ LET s == req[p].sub
         dto == req[p].arg IN
       IF ~Exists(s)
         THEN /\ Fail(p, "User not found")
              /\ cache' = [cache EXCEPT ![s] = Null]
              /\ UNCHANGED <<users, nextId, blocks>>
         ELSE IF "username" \in DOMAIN dto /\ UsernameTaken(dto.username, s)
           THEN /\ Fail(p, "E11000 duplicate key")
                /\ UNCHANGED store
           ELSE LET updatedUser == Returned(users[s], Merge(users[s], dto)) IN
                /\ users' = [users EXCEPT ![s] = Merge(users[s], dto)]
                /\ cache' = Outdated(cache, s)
                /\ req' = [OutdatedReq(req, s, p) EXCEPT ![p] =
                             [@ EXCEPT !.pc = "upd_cache",
                                       !.loc = [user |-> updatedUser, stale |-> FALSE]]]
                /\ UNCHANGED <<nextId, blocks, pre, last>>

\* await this.userModel.findByIdAndUpdate(userId, dto, {new: true})
UpdateUserStore(p) ==
  /\ req[p].pc = "upd_store"
  /\ LET s == req[p].sub
         dto == req[p].arg IN
       IF ~Exists(s)
         THEN /\ Fail(p, "User not found")
              /\ UNCHANGED store
         ELSE IF "username" \in DOMAIN dto /\ UsernameTaken(dto.username, s)
           THEN /\ Fail(p, "E11000 duplicate key")
                /\ UNCHANGED store
           ELSE LET updatedUser == Returned(users[s], Merge(users[s], dto)) IN
                /\ users' = [users EXCEPT ![s] = Merge(users[s], dto)]
                /\ cache' = Outdated(cache, s)
                /\ req' = [OutdatedReq(req, s, p) EXCEPT ![p] =
                             [@ EXCEPT !.pc = "upd_cache",
                                       !.loc = [user |-> updatedUser, stale |-> FALSE]]]
                /\ UNCHANGED <<nextId, blocks, pre, last>>

\* mutant: the cache is not written after the update
UpdateUserCache_Skip(p) ==
  /\ req[p].pc = "upd_cache"
  /\ Done(p, [kind |-> "user", user |-> req[p].loc.user, reads |-> 1])
  /\ UNCHANGED store

\* await this.redis.set(key, JSON.stringify(updatedUser), 'EX', 3600)
UpdateUserCache(p) ==
  /\ req[p].pc = "upd_cache"
  /\ cache' = [cache EXCEPT ![req[p].sub] =
                 [val |-> Stringify(req[p].loc.user), ttl |-> TTL,
                  by |-> "updateUser", stale |-> req[p].loc.stale]]
  /\ Done(p, [kind |-> "user", user |-> req[p].loc.user, reads |-> 1])
  /\ UNCHANGED <<users, nextId, blocks>>

----------------------------------------------------------------------------
(* deleteUser *)

CallDeleteUser(p, S) == \E s \in S : Call(p, "deleteUser", s, Null, "del_user")

\* mutant: the cache entry of the deleted user is removed as well
DeleteUserDoc_Evict(p) ==
  /\ req[p].pc = "del_user"
  /\ LET s == req[p].sub IN
       /\ users' = [users EXCEPT ![s] = Null]
       /\ cache' = [cache EXCEPT ![s] = Null]
       /\ req' = [(IF Exists(s) THEN OutdatedReq(req, s, p) ELSE req)
                    EXCEPT ![p] = [@ EXCEPT !.pc = "del_blocks"]]
  /\ UNCHANGED <<nextId, blocks, pre, last>>

\* await this.userModel.findByIdAndDelete(userId)
DeleteUserDoc(p) ==
  /\ req[p].pc = "del_user"
  /\ LET s == req[p].sub IN
       /\ users' = [users EXCEPT ![s] = Null]
       /\ cache' = IF Exists(s) THEN Outdated(cache, s) ELSE cache
       /\ req' = [(IF Exists(s) THEN OutdatedReq(req, s, p) ELSE req)
                    EXCEPT ![p] = [@ EXCEPT !.pc = "del_blocks"]]
  /\ UNCHANGED <<nextId, blocks, pre, last>>

\* mutant: only the edges the user made are deleted
DeleteUserBlocks_BlockerOnly(p) ==
  /\ req[p].pc = "del_blocks"
  /\ LET s == req[p].sub IN
       blocks' = [e \in Pairs |-> IF e[1] = s THEN 0 ELSE blocks[e]]
  /\ Done(p, [kind |-> "ack"])
  /\ UNCHANGED <<users, nextId, cache>>

\* await this.blockModel.deleteMany({$or: [{userId}, {blockedUserId: userId}]})
DeleteUserBlocks(p) ==
  /\ req[p].pc = "del_blocks"
  /\ LET s == req[p].sub IN
       blocks' = [e \in Pairs |-> IF e[1] = s \/ e[2] = s THEN 0 ELSE blocks[e]]
  /\ Done(p, [kind |-> "ack"])
  /\ UNCHANGED <<users, nextId, cache>>

----------------------------------------------------------------------------
(* blockUser *)

CallBlockUser(p, S, T) ==
  \E s \in S, t \in T :
    Call(p, "blockUser", s, t, "blk_findUser")

\* const user = await this.userModel.findById(userId)
BlockUserFindUser(p) ==
  /\ req[p].pc = "blk_findUser"
  /\ Goto(p, "blk_findBlocked", [user |-> FindById(req[p].sub)])
  /\ UNCHANGED store

\* mutant: the self-block check comes before the not-found check
BlockUserFindBlocked_SelfFirst(p) ==
  /\ req[p].pc = "blk_findBlocked"
  /\ LET blockedUserId == req[p].arg
         userId == HexString(req[p].sub)
         user == req[p].loc.user
         blockedUser == FindById(CastObjectId(blockedUserId).oid) IN
       IF blockedUserId = userId
         THEN Fail(p, "You cannot block yourself")
         ELSE IF blockedUser = Null
           THEN Fail(p, "User not found")
           ELSE IF user = Null
             THEN Fail(p, "TypeError")
             ELSE Goto(p, "blk_findOne", [user |-> user, blockedUser |-> blockedUser])
  /\ UNCHANGED store

\* const blockedUser = await this.userModel.findById(blockedUserId), the two
\* checks, and the filter {userId: user._id, ...} built for findOne
BlockUserFindBlocked(p) ==
  /\ req[p].pc = "blk_findBlocked"
  /\ LET blockedUserId == req[p].arg
         userId == HexString(req[p].sub)
         user == req[p].loc.user
         blockedUser == FindById(CastObjectId(blockedUserId).oid) IN
       IF blockedUser = Null
         THEN Fail(p, "User not found")
         ELSE IF blockedUserId = userId
           THEN Fail(p, "You cannot block yourself")
           ELSE IF user = Null
             THEN Fail(p, "TypeError")
             ELSE Goto(p, "blk_findOne", [user |-> user, blockedUser |-> blockedUser])
  /\ UNCHANGED store

Edge(l) == <<l.user._id.oid, l.blockedUser._id.oid>>

\* mutant: the existing edge is not looked for
BlockUserFindOne_NoCheck(p) ==
  /\ req[p].pc = "blk_findOne"
  /\ Goto(p, "blk_save", req[p].loc)
  /\ UNCHANGED store

\* await this.blockModel.findOne({userId, blockedUserId}); if (existingBlock) throw
BlockUserFindOne(p) ==
  /\ req[p].pc = "blk_findOne"
  /\ IF blocks[Edge(req[p].loc)] > 0
       THEN Fail(p, "User already blocked")
       ELSE Goto(p, "blk_save", req[p].loc)
  /\ UNCHANGED store

\* await newBlock.save(); return blockedUser
BlockUserSave(p) ==
  /\ req[p].pc = "blk_save"
  /\ blocks' = [blocks EXCEPT ![Edge(req[p].loc)] = @ + 1]
  /\ Done(p, [kind |-> "user", user |-> req[p].loc.blockedUser, reads |-> 1])
  /\ UNCHANGED <<users, nextId, cache>>

----------------------------------------------------------------------------
(* unblockUser *)

CallUnblockUser(p, S, T) ==
  \E s \in S, t \in T :
    Call(p, "unblockUser", s, t, "unb_delete")

\* mutant: the edge in the other direction is deleted as well
UnblockUserDelete_BothWays(p) ==
  /\ req[p].pc = "unb_delete"
  /\ LET a == CastObjectId(HexString(req[p].sub)).oid
         b == CastObjectId(req[p].arg).oid IN
       blocks' = [e \in Pairs |->
                    IF e = <<a, b>> \/ e = <<b, a>> THEN 0 ELSE blocks[e]]
  /\ Done(p, [kind |-> "ack"])
  /\ UNCHANGED <<users, nextId, cache>>

\* mutant: the filter names the blocker only
UnblockUserDelete_AllOfBlocker(p) ==
  /\ req[p].pc = "unb_delete"
  /\ LET a == CastObjectId(HexString(req[p].sub)).oid IN
       blocks' = [e \in Pairs |-> IF e[1] = a THEN 0 ELSE blocks[e]]
  /\ Done(p, [kind |-> "ack"])
  /\ UNCHANGED <<users, nextId, cache>>

\* await this.blockModel.deleteMany({userId: ObjectId(userId),
\*                                   blockedUserId: ObjectId(blockedUserId)})
UnblockUserDelete(p) ==
  /\ req[p].pc = "unb_delete"
  /\ LET a == CastObjectId(HexString(req[p].sub)).oid
         b == CastObjectId(req[p].arg).oid IN
       blocks' = [e \in Pairs |-> IF e = <<a, b>> THEN 0 ELSE blocks[e]]
  /\ Done(p, [kind |-> "ack"])
  /\ UNCHANGED <<users, nextId, cache>>

----------------------------------------------------------------------------
(* searchUsers *)

\* an instant is <<year, month, day, t>>, t = 0 at midnight and 1 later in the day
Nows == {<<2026, 11, 2, 1>>}
Ages == {Undefined, 30}
Fragments == {Null, [re |-> <<"b">>], [re |-> <<"z">>]}

Midnight(d) == <<d[1], d[2], d[3], 0>>
Before(a, b) ==
  \E k \in 1 .. 4 : a[k] < b[k] /\ \A j \in 1 .. (k - 1) : a[j] = b[j]
AtOrBefore(a, b) == a = b \/ Before(a, b)

Leap(y) == y % 4 = 0 /\ (y % 100 # 0 \/ y % 400 = 0)

\* d.setFullYear(d.getFullYear() - n); 29 February of a year that has none
\* overflows to 1 March
YearsBack(now, n) ==
  IF now[2] = 2 /\ now[3] = 29 /\ ~Leap(now[1] - n)
    THEN <<now[1] - n, 3, 1, now[4]>>
    ELSE <<now[1] - n, now[2], now[3], now[4]>>
\* new Date(year, 0, 1)
JanFirst(year) == <<year, 1, 1, 0>>

\* mutant: the two bounds of the window are taken from the wrong ages
AgeCondition_Swapped(now, minAge, maxAge) ==
  IF minAge # Undefined /\ maxAge # Undefined
    THEN IF minAge <= maxAge
           THEN [gte |-> YearsBack(now, minAge), lte |-> YearsBack(now, maxAge)]
           ELSE [none |-> TRUE]
    ELSE IF minAge # Undefined
      THEN [lte |-> JanFirst(now[1] - minAge)]
      ELSE IF maxAge # Undefined
        THEN [gte |-> YearsBack(now, maxAge)]
        ELSE [none |-> TRUE]

\* lines 198-217: the birthdate filter, [] when no bound applies
AgeCondition(now, minAge, maxAge) ==
  IF minAge # Undefined /\ maxAge # Undefined
    THEN IF minAge <= maxAge
           THEN [gte |-> YearsBack(now, maxAge), lte |-> YearsBack(now, minAge)]
           ELSE [none |-> TRUE]
    ELSE IF minAge # Undefined
      THEN [lte |-> JanFirst(now[1] - minAge)]
      ELSE IF maxAge # Undefined
        THEN [gte |-> YearsBack(now, maxAge)]
        ELSE [none |-> TRUE]

\* a filter document with no field matches every document
MatchesAge(doc, cond) ==
  /\ "gte" \in DOMAIN cond => AtOrBefore(cond.gte, Midnight(doc.birthdate.date))
  /\ "lte" \in DOMAIN cond => AtOrBefore(Midnight(doc.birthdate.date), cond.lte)

Lower(c) == CASE c = "A" -> "a" [] c = "B" -> "b" [] c = "N" -> "n"
              [] c = "O" -> "o" [] c = "Z" -> "z" [] OTHER -> c
LowerAll(w) == [k \in 1 .. Len(w) |-> Lower(w[k])]
Contains(w, f) ==
  \E k \in 0 .. (Len(w) - Len(f)) : SubSeq(w, k + 1, k + Len(f)) = f

\* RegExp.test: the pattern matches at some position of the string; the
\* pattern character "." stands for any character
RegexTest(w, re) ==
  \E k \in 0 .. (Len(w) - Len(re)) :
    \A j \in 1 .. Len(re) : re[j] = "." \/ re[j] = w[k + j]

\* new RegExp(username, 'i') tested on the document's username;
\* new RegExp(undefined) is the empty pattern and matches every string
MatchesRegex(doc, username) ==
  username = Null \/ RegexTest(LowerAll(doc.username), LowerAll(username.re))

\* the _id of the documents of the blocks collection with the given blocker
BlockDocIds(a) ==
  UNION {{[blk |-> <<a, b, k>>] : k \in 1 .. blocks[<<a, b>>]} : b \in Ids}

\* a call of searchUsers; `now` is the instant new Date() returns when the
\* handler builds the filter
CallSearchWith(p, S, F, A, N) ==
  \E s \in S, u \in F, mn \in A, mx \in A, now \in N :
    Call(p, "searchUsers", s,
         [username |-> u, minAge |-> mn, maxAge |-> mx, now |-> now],
         "srch_blocks")

CallSearchUsers(p, S) == CallSearchWith(p, S, Fragments, Ages, Nows)

\* const blockedUsers = await this.blockModel.find({userId});
\* blockedUserIds = blockedUsers.map(({_id}) => _id); then lines 198-228
SearchUsersBlocks(p) ==
  /\ req[p].pc = "srch_blocks"
  /\ LET userId == HexString(req[p].sub)
         blockedUserIds == BlockDocIds(CastObjectId(userId).oid)
         now == req[p].arg.now IN
       Goto(p, "srch_find",
            [ne |-> CastObjectId(userId), nin |-> blockedUserIds,
             regex |-> req[p].arg.username,
             ageCondition |-> AgeCondition(now, req[p].arg.minAge, req[p].arg.maxAge)])
  /\ UNCHANGED store

\* mutant: the filter has no $ne for the caller's own id
FindUsers_NoNe(c) ==
  {users[i] : i \in {j \in Ids : /\ users[j] # Null
                                 /\ users[j]._id \notin c.nin
                                 /\ \/ MatchesRegex(users[j], c.regex)
                                    \/ MatchesAge(users[j], c.ageCondition)}}

\* the documents of the users collection that satisfy `conditions`
FindUsers(c) ==
  {users[i] : i \in {j \in Ids : /\ users[j] # Null
                                 /\ users[j]._id # c.ne
                                 /\ users[j]._id \notin c.nin
                                 /\ \/ MatchesRegex(users[j], c.regex)
                                    \/ MatchesAge(users[j], c.ageCondition)}}

\* const users = await this.userModel.find(conditions); return users
SearchUsersFind(p) ==
  /\ req[p].pc = "srch_find"
  /\ Done(p, [kind |-> "list", users |-> FindUsers(req[p].loc)])
  /\ UNCHANGED store

----------------------------------------------------------------------------
(* Time passes: Redis counts every entry's expiry down and drops the entry
   when it reaches zero.  When requests are served one at a time, time passes
   between two requests. *)

Aged ==
  [i \in Ids |->
     IF cache[i] = Null \/ cache[i].ttl <= TickSeconds
       THEN Null
       ELSE [cache[i] EXCEPT !.ttl = @ - TickSeconds]]

Tick ==
  /\ \E i \in Ids : cache[i] # Null
  /\ cache' = Aged
  /\ Serial => req[1].pc = "idle"
  /\ UNCHANGED <<users, nextId, blocks, req, pre, last>>

----------------------------------------------------------------------------
(* The service: requests arrive at any time and their steps interleave. *)

CallAny(p, S) ==
  \/ CallCreateUser(p)
  \/ CallGetUser(p, S)
  \/ CallUpdateUser(p, S)
  \/ CallDeleteUser(p, S)
  \/ CallBlockUser(p, S, IdStrings(Ids \cup {NeverId}))
  \/ CallUnblockUser(p, S, IdStrings(Ids \cup {NeverId}))
  \/ CallSearchUsers(p, S)

Step(p) ==
  \/ CreateUserSave(p)
  \/ GetUserCache(p)
  \/ GetUserFind(p)
  \/ GetUserSet(p)
  \/ UpdateUserStore(p)
  \/ UpdateUserCache(p)
  \/ DeleteUserDoc(p)
  \/ DeleteUserBlocks(p)
  \/ BlockUserFindUser(p)
  \/ BlockUserFindBlocked(p)
  \/ BlockUserFindOne(p)
  \/ BlockUserSave(p)
  \/ UnblockUserDelete(p)
  \/ SearchUsersBlocks(p)
  \/ SearchUsersFind(p)
  \/ Respond(p)

Next ==
  \/ \E p \in Procs : CallAny(p, Ids) \/ Step(p)
  \/ Tick

Spec == Init /\ [][Next]_vars

----------------------------------------------------------------------------
(* The scenarios that are checked.  Each starts with the accounts created
   (Populated, a state Spec reaches by calls of createUser) and lets the
   accounts of Focus call a family of operations; the other accounts exist
   and can be named as targets. *)

SerialInit == Populated(Null)
RaceInit == Populated(Off)

Focus == 1 .. MaxFocus
Subject == {i \in Ids : \A j \in Ids : i <= j}

\* the id strings a client may put in the URL: the id of an account or of none,
\* in either spelling; PrintedTargets are the spellings the service prints
Targets == IdStrings(Ids \cup {NeverId})
PrintedTargets == {HexString(i) : i \in Ids \cup {NeverId}}

\* block edges, one request at a time
BlockSeqNext ==
  \E p \in Procs :
    \/ CallGetUser(p, Focus)
    \/ CallDeleteUser(p, Focus)
    \/ CallBlockUser(p, Focus, Targets)
    \/ CallUnblockUser(p, Focus, Targets)
    \/ CallSearchUsers(p, Focus)
    \/ GetUserCache(p)
    \/ GetUserFind(p)
    \/ GetUserSet(p)
    \/ DeleteUserDoc(p)
    \/ DeleteUserBlocks(p)
    \/ BlockUserFindUser(p)
    \/ BlockUserFindBlocked(p)
    \/ BlockUserFindOne(p)
    \/ BlockUserSave(p)
    \/ UnblockUserDelete(p)
    \/ SearchUsersBlocks(p)
    \/ SearchUsersFind(p)
    \/ Respond(p)

BlockSeqSpec == SerialInit /\ [][BlockSeqNext]_vars

\* the cache, one request at a time
CacheNext(S) ==
  \/ \E p \in Procs :
       \/ CallGetUser(p, S)
       \/ CallUpdateUser(p, S)
       \/ CallDeleteUser(p, S)
       \/ GetUserCache(p)
       \/ GetUserFind(p)
       \/ GetUserSet(p)
       \/ UpdateUserStore(p)
       \/ UpdateUserCache(p)
       \/ DeleteUserDoc(p)
       \/ DeleteUserBlocks(p)
       \/ Respond(p)
  \/ Tick

CacheSeqNext == CacheNext(Focus)
CacheSeqSpec == SerialInit /\ [][CacheSeqNext]_vars

\* the cache, requests of one subject interleaving
CacheRaceNext == CacheNext(Subject)
CacheSpec == RaceInit /\ [][CacheRaceNext]_vars

\* block edges, requests interleaving
BlockNext ==
  \E p \in Procs :
    \/ CallDeleteUser(p, Focus)
    \/ CallBlockUser(p, Subject, PrintedTargets)
    \/ CallUnblockUser(p, Subject, PrintedTargets)
    \/ DeleteUserDoc(p)
    \/ DeleteUserBlocks(p)
    \/ BlockUserFindUser(p)
    \/ BlockUserFindBlocked(p)
    \/ BlockUserFindOne(p)
    \/ BlockUserSave(p)
    \/ UnblockUserDelete(p)
    \/ Respond(p)

BlockSpec == RaceInit /\ [][BlockNext]_vars

\* searches of one account, one request at a time, on anniversaries of the
\* seed birthdates, at midnight and later in the day
SearchNows == {<<2026, 11, 2, 1>>, <<2026, 11, 2, 0>>, <<2026, 6, 15, 1>>}
SearchAges == {Undefined, 26, 36, 46}
SearchFragments == {[re |-> <<"b">>], [re |-> <<"q">>], [re |-> <<".">>]}

SearchNext ==
  \E p \in Procs :
    \/ CallSearchWith(p, Subject, SearchFragments, SearchAges, SearchNows)
    \/ CallBlockUser(p, Subject, PrintedTargets)
    \/ CallDeleteUser(p, Focus)
    \/ SearchUsersBlocks(p)
    \/ SearchUsersFind(p)
    \/ BlockUserFindUser(p)
    \/ BlockUserFindBlocked(p)
    \/ BlockUserFindOne(p)
    \/ BlockUserSave(p)
    \/ DeleteUserDoc(p)
    \/ DeleteUserBlocks(p)
    \/ Respond(p)

SearchSpec == SerialInit /\ [][SearchNext]_vars

\* the operations that write, by the accounts of Focus
FrameNext ==
  \E p \in Procs :
       \/ CallGetUser(p, Focus)
       \/ CallUpdateUser(p, Focus)
       \/ CallDeleteUser(p, Focus)
       \/ CallBlockUser(p, Focus, PrintedTargets)
       \/ CallUnblockUser(p, Focus, PrintedTargets)
       \/ GetUserCache(p)
       \/ GetUserFind(p)
       \/ GetUserSet(p)
       \/ UpdateUserStore(p)
       \/ UpdateUserCache(p)
       \/ DeleteUserDoc(p)
       \/ DeleteUserBlocks(p)
       \/ BlockUserFindUser(p)
       \/ BlockUserFindBlocked(p)
       \/ BlockUserFindOne(p)
       \/ BlockUserSave(p)
       \/ UnblockUserDelete(p)
       \/ Respond(p)

FrameSpec == SerialInit /\ [][FrameNext]_vars

\* the HTTP routes, one request at a time, from the empty store: accounts are
\* created, and clients send every kind of Authorization header, with the
\* tokens that were issued, tokens signed with another secret and a text that
\* is no JWT
Held(S) == {TokenOf(i) : i \in Issued \cap S}
Forged(S) == {Sign(i, OtherSecret) : i \in S}
Headers ==
  {Null, [parts |-> <<Text("Bearer")>>], [parts |-> <<Text("Bearer"), Text("")>>]}
    \cup {Bearer(t) : t \in Held(Focus) \cup Forged(Subject) \cup {Text("abc")}}
    \cup {[parts |-> <<Text("Basic"), t>>] : t \in Held(Subject) \cup {Text("abc")}}
    \cup {[parts |-> <<t>>] : t \in Held(Subject)}

HttpRequest(p) ==
  \E h \in Headers :
    \/ Request(p, "getUser", h, Null, "get_cache")
    \/ Request(p, "updateUser", h, [birthdate |-> <<1980, 6, 15>>], "upd_store")
    \/ Request(p, "deleteUser", h, Null, "del_user")
    \/ Request(p, "blockUser", h, HexString(2), "blk_findUser")
    \/ Request(p, "unblockUser", h, HexString(2), "unb_delete")
    \/ \E now \in Nows :
         Request(p, "searchUsers", h,
                 [username |-> Null, minAge |-> Undefined, maxAge |-> Undefined,
                  now |-> now], "srch_blocks")

HttpNext ==
  \E p \in Procs :
    \/ CallCreateWith(p, {SeedDto(1), SeedDto(nextId)})
    \/ HttpRequest(p)
    \/ Step(p)

HttpInit == Empty(Null)
HttpSpec == HttpInit /\ [][HttpNext]_vars

----------------------------------------------------------------------------
(* Properties *)

\* the request of the sequential scenarios, once it has been answered
Answered(op) == req[1].pc = "done" /\ req[1].op = op
Succeeded(op) == Answered(op) /\ req[1].err = "none"
Listed(i) == \E d \in req[1].res.users : d._id = ObjectId(i)

\* C1: once blockUser(A, B) has succeeded and until unblockUser(A, B), no
\* searchUsers of A returns B, whatever the fragment and the ages are.
\* (BlockSeqSpec: an edge (A, B) is in the store exactly from a successful
\* blockUser(A, B) to the next unblockUser(A, B) or deletion of A or B.)
C1_SearchHidesBlocked ==
  Succeeded("searchUsers") =>
    \A b \in Ids : pre.blocks[<<req[1].sub, b>>] > 0 => ~Listed(b)

\* C2, as stated: a present cache entry user:S differs from the store's record
\* of S only while an updateUser of S is between its store write and its
\* cache write.
C2_DivergesOnlyInsideUpdate ==
  \A s \in Ids :
    (cache[s] # Null /\ (users[s] = Null \/ cache[s].val # Stringify(users[s])))
      => \E p \in Procs : /\ req[p].op = "updateUser"
                          /\ req[p].sub = s
                          /\ req[p].pc = "upd_cache"

\* C2, amended: a present cache entry user:S equals the store's record of S
\* unless the record was written or deleted after the entry's snapshot was
\* taken from the store (by the updateUser that has yet to write the cache,
\* by a deleteUser, or by an update that overtook the request that wrote the
\* entry).
C2_FreshEntryEqualsStore ==
  \A s \in Ids :
    (cache[s] # Null /\ ~cache[s].stale)
      => users[s] # Null /\ cache[s].val = Stringify(users[s])

\* an entry written by an updateUser is current while a getUser that was
\* overtaken still holds an older snapshot it is about to write
C2_Witness ==
  \E s \in Ids, p \in Procs :
    /\ cache[s] # Null /\ ~cache[s].stale /\ cache[s].by = "updateUser"
    /\ cache[s].val = Stringify(users[s])
    /\ req[p].pc = "get_set" /\ req[p].sub = s /\ req[p].loc.stale

\* C3: with no other request in flight, a successful updateUser(S, d) leaves
\* the updated record in the store and in the cache entry user:S, with the
\* expiry back at one hour, and the next getUser(S) returns the updated record.
C3_UpdateVisible ==
  /\ Succeeded("updateUser") =>
       LET s == req[1].sub IN
         /\ users[s] = Merge(pre.users[s], req[1].arg)
         /\ req[1].res.user = users[s]
         /\ cache[s] # Null
         /\ cache[s].val = Stringify(users[s])
         /\ cache[s].ttl = TTL
  /\ (Answered("getUser") /\ last.sub = req[1].sub) =>
       /\ req[1].err = "none"
       /\ req[1].res.kind = "user"
       /\ Body(req[1].res.user) = ToJSON(users[req[1].sub])

\* the getUser that follows an update which replaced an older cached snapshot
\* is answered from the cache
C3_Witness ==
  /\ Answered("getUser") /\ last.sub = req[1].sub /\ last.old
  /\ req[1].res.reads = 0

\* C4: a getUser(S) that finds an entry user:S returns that snapshot and does
\* not read the store, whatever the store holds now; one that finds none
\* reads the store, returns its current value and caches it for an hour (an
\* absent user is not cached).
C4_Answer ==
  Answered("getUser") =>
    LET s == req[1].sub IN
      /\ req[1].err = "none"
      /\ users = pre.users
      /\ IF pre.cache[s] # Null
           THEN /\ req[1].res = [kind |-> "user", user |-> Parse(pre.cache[s].val),
                                 reads |-> 0]
                /\ cache = pre.cache
           ELSE IF pre.users[s] = Null
             THEN /\ req[1].res = [kind |-> "null", reads |-> 1]
                  /\ cache = pre.cache
             ELSE /\ req[1].res = [kind |-> "user", user |-> pre.users[s], reads |-> 1]
                  /\ cache[s] # Null
                  /\ cache[s].val = Stringify(pre.users[s])
                  /\ cache[s].ttl = TTL

\* C4: an entry keeps its snapshot until its hour has passed or an updateUser
\* of the subject overwrites it
C4_Kept ==
  \A s \in Ids :
    cache[s] # Null =>
      \/ cache'[s] # Null /\ cache'[s].val = cache[s].val
      \/ cache'[s] = Null /\ cache[s].ttl <= TickSeconds
      \/ \E p \in Procs : /\ req[p].op = "updateUser" /\ req[p].sub = s
                          /\ req[p].pc = "upd_cache"

C4_CachedSnapshotServed == []C4_Answer /\ [][C4_Kept]_vars

\* a getUser is answered with the snapshot an earlier getUser cached although
\* the store no longer holds that record
C4_Witness ==
  /\ Answered("getUser") /\ req[1].res.reads = 0
  /\ pre.cache[req[1].sub].by = "getUser"
  /\ pre.cache[req[1].sub].ttl < TTL
  /\ users[req[1].sub] = Null

\* C5: no state holds two block edges with the same blocker and blockee, also
\* when two blockUser requests for the same pair run concurrently.
C5_NoDuplicateEdge == \A e \in Pairs : blocks[e] <= 1

\* the ObjectId number the target string of the answered request denotes
Target == CastObjectId(req[1].arg).oid
PreKnown(i) == i \in Ids /\ pre.users[i] # Null
Unchanged == users = pre.users /\ blocks = pre.blocks /\ cache = pre.cache

\* C6: blockUser(A, B), called while the edge (A, B) of an earlier successful
\* blockUser(A, B) is in the store, fails with 'User already blocked' and
\* leaves the edges as they were: still exactly one edge (A, B).  (B is
\* another user than A.)
C6_SecondBlockConflicts ==
  (/\ Answered("blockUser")
   /\ Target \in Ids /\ Target # req[1].sub
   /\ pre.blocks[<<req[1].sub, Target>>] > 0)
    => /\ req[1].err = "User already blocked"
       /\ blocks = pre.blocks
       /\ blocks[<<req[1].sub, Target>>] = 1

C6_Witness ==
  /\ Answered("blockUser") /\ req[1].err = "User already blocked"
  /\ pre.blocks[<<req[1].sub, Target>>] = 1
  /\ \E e \in Pairs : e # <<req[1].sub, Target>> /\ blocks[e] > 0

\* C7: blockUser(A, A) fails with 'You cannot block yourself' for every
\* actor A with a valid token, and no state holds an edge from a user to
\* itself.
C7_NoSelfBlock ==
  /\ (Answered("blockUser") /\ Target = req[1].sub)
       => req[1].err = "You cannot block yourself"
  /\ \A i \in Ids : blocks[<<i, i>>] = 0

\* C8: blockUser(A, T) with T the id of no user in the store fails with
\* 'User not found' and leaves users, block edges and cache entries as they
\* were.
C8_UnknownTargetNotFound ==
  (Answered("blockUser") /\ ~PreKnown(Target))
    => req[1].err = "User not found" /\ Unchanged

\* the target is an account that was deleted, and the cache and the edges are
\* not empty
C8_Witness ==
  /\ Answered("blockUser") /\ Target \in Ids /\ ~PreKnown(Target)
  /\ req[1].err = "User not found"
  /\ \E i \in Ids : cache[i] # Null
  /\ \E e \in Pairs : blocks[e] > 0

\* C9: when deleteUser(S) has returned, the store holds no user S and no
\* edge with S as blocker or blockee, and every edge without S is as it was.
C9_DeleteCascades ==
  Answered("deleteUser") =>
    LET s == req[1].sub IN
      /\ req[1].err = "none"
      /\ users[s] = Null
      /\ \A e \in Pairs :
           blocks[e] = IF e[1] = s \/ e[2] = s THEN 0 ELSE pre.blocks[e]

\* the deleted user had blocked, had been blocked, and an edge between two
\* other users stays
C9_Witness ==
  /\ Answered("deleteUser") /\ PreKnown(req[1].sub)
  /\ \E e \in Pairs : e[1] = req[1].sub /\ e[2] # req[1].sub /\ pre.blocks[e] > 0
  /\ \E e \in Pairs : e[2] = req[1].sub /\ e[1] # req[1].sub /\ pre.blocks[e] > 0
  /\ \E e \in Pairs : e[1] # req[1].sub /\ e[2] # req[1].sub /\ blocks[e] > 0

\* C10: unblockUser(A, B) succeeds whether or not an edge (A, B) exists;
\* afterwards there is no edge (A, B) and everything else, the edge (B, A)
\* included, is as it was; with no edge (A, B) before, nothing changes at
\* all, so a second call changes nothing.
C10_UnblockIdempotent ==
  Answered("unblockUser") =>
    /\ req[1].err = "none" /\ req[1].res = [kind |-> "ack"]
    /\ users = pre.users /\ cache = pre.cache
    /\ \A e \in Pairs :
         blocks[e] = IF e = <<req[1].sub, Target>> THEN 0 ELSE pre.blocks[e]
    /\ (Target \in Ids /\ pre.blocks[<<req[1].sub, Target>>] = 0) => Unchanged

\* an edge (A, B) is removed while the edge (B, A) stays
C10_Witness ==
  /\ Answered("unblockUser") /\ Target \in Ids /\ Target # req[1].sub
  /\ pre.blocks[<<req[1].sub, Target>>] > 0
  /\ blocks[<<Target, req[1].sub>>] > 0

\* C11: no list returned by searchUsers called with A's token contains user A,
\* whatever the fragment, minAge and maxAge are and whatever the store holds.
C11_SearchExcludesActor ==
  Succeeded("searchUsers") => ~Listed(req[1].sub)

\* the actor exists and its own username matches the fragment, and the list
\* holds another user
C11_Witness ==
  /\ Succeeded("searchUsers") /\ Exists(req[1].sub)
  /\ req[1].arg.username # Null
  /\ MatchesRegex(users[req[1].sub], req[1].arg.username)
  /\ req[1].res.users # {}

\* the candidates of an answered search whose listing the age predicate alone
\* decides: users in the store other than the actor, not blocked by the
\* actor, whose username the fragment does not match
Given(a) == a # Undefined
Birth(i) == Midnight(pre.users[i].birthdate.date)
NameHit(i) ==
  /\ req[1].arg.username # Null
  /\ Contains(LowerAll(pre.users[i].username), LowerAll(req[1].arg.username.re))
Passes(i) ==
  PreKnown(i) /\ i # req[1].sub /\ pre.blocks[<<req[1].sub, i>>] = 0
ByAgeOnly(i) == Passes(i) /\ ~MatchesRegex(pre.users[i], req[1].arg.username)

\* the age predicate of section 4.5 of the spec, today being the instant of
\* the call
AgePredicate(i) ==
  LET now == req[1].arg.now
      mn == req[1].arg.minAge
      mx == req[1].arg.maxAge IN
    IF Given(mn) /\ Given(mx)
      THEN /\ mn <= mx
           /\ AtOrBefore(YearsBack(now, mx), Birth(i))
           /\ AtOrBefore(Birth(i), YearsBack(now, mn))
      ELSE IF Given(mn) THEN AtOrBefore(Birth(i), YearsBack(now, mn))
      ELSE IF Given(mx) THEN AtOrBefore(YearsBack(now, mx), Birth(i))
      ELSE FALSE

\* C12: searchUsers returns exactly the users that pass the exclusion (not the
\* actor, not blocked by the actor) and whose username contains the fragment,
\* case-insensitively, or whose birthdate satisfies the age predicate; with no
\* age predicate, a user whose username does not contain the fragment is not
\* returned.
C12_SearchExact ==
  (Succeeded("searchUsers") /\ req[1].arg.username # Null) =>
    \A i \in Ids : Listed(i) <=> (Passes(i) /\ (NameHit(i) \/ AgePredicate(i)))

C14_MinAgeOnly ==
  (/\ Succeeded("searchUsers")
   /\ Given(req[1].arg.minAge) /\ ~Given(req[1].arg.maxAge))
    => \A i \in Ids : ByAgeOnly(i) =>
         (Listed(i) <=> AtOrBefore(Birth(i), YearsBack(req[1].arg.now, req[1].arg.minAge)))

AuthOps ==
  {"getUser", "updateUser", "deleteUser", "blockUser", "unblockUser",
   "searchUsers"}

\* C15: the token createUser returns for the new user S verifies in every
\* authenticated operation and yields S's id: every operation uses the secret
\* the token was signed with, and a request that presents the token runs as S.
C15_TokenRoundTrip ==
  /\ \A op \in AuthOps : SecretIn(op) = SecretIn("createUser")
  /\ Succeeded("createUser") =>
       /\ req[1].res.token = TokenOf(req[1].res.user._id.oid)
       /\ \A op \in AuthOps :
            /\ Verify(req[1].res.token, SecretIn(op))
            /\ CastObjectId(req[1].res.token.id) = req[1].res.user._id
  /\ \A s \in Issued :
       (req[1].op \in AuthOps /\ req[1].hdr = Bearer(TokenOf(s)))
         => /\ req[1].sub = s
            /\ req[1].err \notin {"invalid token", "400 Bad Request"}

\* the token of the second account created is presented and its record is
\* updated and returned
C15_Witness ==
  \E s \in Issued :
    /\ s # 1
    /\ Succeeded("updateUser") /\ req[1].hdr = Bearer(TokenOf(s))
    /\ req[1].res.user._id = ObjectId(s)

\* a token that is no JWT or whose signature was made with another secret
BadToken(t) == "sig" \notin DOMAIN t \/ t.sig # Secret

\* C16: an authenticated operation invoked with a token that is malformed or
\* signed with another secret fails with the invalid-token error at once,
\* before any await: it returns no data and users, block edges and cache are
\* as they were.
C16_InvalidTokenRejected ==
  (req[1].op \in AuthOps /\ req[1].tok # Null /\ BadToken(req[1].tok))
    => /\ req[1].pc = "done"
       /\ req[1].err = "invalid token"
       /\ req[1].res = Null
       /\ Unchanged

\* deleteUser is called with a forged token for an account that exists and is
\* cached
C16_Witness ==
  \E s \in Ids :
    /\ Answered("deleteUser") /\ req[1].tok = Sign(s, OtherSecret)
    /\ req[1].err = "invalid token"
    /\ Exists(s) /\ cache[s] # Null

\* a header of the form 'Bearer <token>'
WellFormed(h) ==
  /\ h # Null
  /\ Len(h.parts) = 2
  /\ h.parts[1] = Text("Bearer")
  /\ h.parts[2] # Text("")

\* C17: on every authenticated route, a request whose Authorization header is
\* missing or not of the form 'Bearer <token>' is answered with HTTP 400 and
\* the service operation is not invoked.
C17_MalformedHeader400 ==
  (req[1].op \in AuthOps /\ ~WellFormed(req[1].hdr))
    => /\ req[1].pc = "done"
       /\ req[1].err = "400 Bad Request"
       /\ req[1].tok = Null

Quiet == \A p \in Procs : req[p].pc \in {"idle", "done"}

\* C18: whenever no blockUser or deleteUser request is in flight, both
\* endpoints of every block edge are users in the store, however the requests
\* interleaved.
C18_NoDanglingEdge ==
  Quiet => \A e \in Pairs : blocks[e] > 0 => Exists(e[1]) /\ Exists(e[2])

\* the request that takes the step
Acting(p) == req'[p].pc # req[p].pc

\* C19: a step of an operation called with S's token changes only S's data:
\* updateUser and deleteUser leave the records of the other users as they
\* are, updateUser and getUser leave the cache entries of the other users as
\* they are, blockUser adds no edge but one with blocker S, and unblockUser
\* removes no edge but ones with blocker S.
C19_Step ==
  \A p \in Procs :
    Acting(p) =>
      LET s == req[p].sub
          op == req[p].op IN
        /\ op \in {"updateUser", "deleteUser"} =>
             \A i \in Ids \ {s} : users'[i] = users[i]
        /\ op \in {"updateUser", "getUser"} =>
             \A i \in Ids \ {s} : cache'[i] = cache[i]
        /\ op = "blockUser" =>
             \A e \in Pairs : blocks'[e] > blocks[e] => e[1] = s
        /\ op = "unblockUser" =>
             \A e \in Pairs : blocks'[e] < blocks[e] => e[1] = s

C19_OwnDataOnly == [][C19_Step]_vars

\* user 1 has updated its record, has cached it and has removed its edge to
\* user 2, while the record and the cache entry of user 2 and the edge from 2
\* to 1 are there
C19_Witness ==
  /\ \E p \in Procs : /\ req[p].op = "unblockUser" /\ req[p].pc = "done"
                       /\ req[p].sub = 1 /\ req[p].arg = HexString(2)
  /\ users[1] # Null /\ users[1] # NewDoc(1, SeedDto(1))
  /\ users[2] = NewDoc(2, SeedDto(2))
  /\ cache[1] # Null /\ cache[2] # Null
  /\ blocks[<<2, 1>>] > 0 /\ blocks[<<1, 2>>] = 0

\* what Redis holds: the values and their remaining seconds
CacheView(c) ==
  [i \in Ids |-> IF c[i] = Null THEN Null
                  ELSE [val |-> c[i].val, ttl |-> c[i].ttl]]

\* C20: when deleteUser(S) has returned, Redis holds what it held before, so
\* an entry user:S is still there and is the snapshot of S as it was before
\* the deletion; a getUser(S) for the deleted S returns the entry as long as
\* there is one, and with no entry it returns null and caches nothing.
C20_Answer ==
  /\ Answered("deleteUser") =>
       LET s == req[1].sub IN
         /\ CacheView(cache) = CacheView(pre.cache)
         /\ (PreKnown(s) /\ cache[s] # Null) =>
              cache[s].val = Stringify(pre.users[s])
  /\ (Answered("getUser") /\ pre.users[req[1].sub] = Null) =>
       LET s == req[1].sub IN
         /\ cache = pre.cache
         /\ IF pre.cache[s] # Null
              THEN req[1].res = [kind |-> "user",
                                 user |-> Parse(pre.cache[s].val), reads |-> 0]
              ELSE req[1].res = [kind |-> "null", reads |-> 1]

\* C20: no step of deleteUser changes what Redis holds, and the entry of a
\* deleted user keeps its snapshot until its hour has passed
C20_Step ==
  /\ \A p \in Procs :
       (Acting(p) /\ req[p].op = "deleteUser")
         => CacheView(cache') = CacheView(cache)
  /\ \A s \in Ids :
       (users[s] = Null /\ cache[s] # Null) =>
         \/ cache'[s] # Null /\ cache'[s].val = cache[s].val
         \/ cache'[s] = Null /\ cache[s].ttl <= TickSeconds

C20_DeleteKeepsCache == []C20_Answer /\ [][C20_Step]_vars

\* the deleted user had updated its record, and the entry the update wrote,
\* now half an hour old, is still in the cache
C20_Witness ==
  /\ Answered("deleteUser") /\ PreKnown(req[1].sub)
  /\ cache[req[1].sub] # Null
  /\ cache[req[1].sub].by = "updateUser"
  /\ cache[req[1].sub].ttl < TTL

\* C21: the token of a deleted subject S still verifies and its operations
\* run: updateUser(S, d) fails with 'User not found' and leaves users, edges
\* and what Redis holds as they were, an entry user:S included; a repeated
\* deleteUser(S) returns success and changes nothing.
C21_DeletedSubject ==
  /\ (Answered("updateUser") /\ pre.users[req[1].sub] = Null) =>
       /\ req[1].tok = TokenOf(req[1].sub)
       /\ req[1].err = "User not found"
       /\ req[1].res = Null
       /\ users = pre.users /\ blocks = pre.blocks
       /\ CacheView(cache) = CacheView(pre.cache)
  /\ (Answered("deleteUser") /\ pre.users[req[1].sub] = Null) =>
       /\ req[1].tok = TokenOf(req[1].sub)
       /\ req[1].err = "none" /\ req[1].res = [kind |-> "ack"]
       /\ users = pre.users /\ blocks = pre.blocks
       /\ CacheView(cache) = CacheView(pre.cache)

\* the deleted subject's entry is still cached when its updateUser fails, and
\* another user holds an edge
C21_Witness ==
  /\ Answered("updateUser") /\ pre.users[req[1].sub] = Null
  /\ req[1].err = "User not found"
  /\ cache[req[1].sub] # Null
  /\ \E e \in Pairs : blocks[e] > 0

====
